---- MODULE Spec2Model ----
(***************************************************************************)
(* Campus Shield (src/app.py): a Flask application over four SQLAlchemy    *)
(* tables (User, Complaint, Poll, Vote), a Flask-Login session cookie, an  *)
(* uploads directory and an SMTP mailer.  Every route handler that writes  *)
(* is modelled; a handler that reads, commits and reads again is split at  *)
(* its commits, so that requests served concurrently interleave there.     *)
(***************************************************************************)
EXTENDS Integers, Sequences, FiniteSets, TLC

\* ------------------------------------------------------------------ bounds
\* Rows the complaint table may hold.
MaxComplaint == 2

\* Rows the vote table may hold.
MaxVote == 2

\* Requests the server may have in flight at once (its worker slots).
Requests == {"w1", "w2"}

\* Browsers (one cookie jar each).
Sessions == {"b1", "b2"}

\* The browser that logs in where one is enough.
Student == {"b1"}

\* ------------------------------------------------------------ input values
\* Python's None in an Integer column / in current_user.
None == 0

\* Python's None in a string value (form.get of an absent field).
NoneStr == "<None>"

\* A key absent from request.form.
Missing == "<missing>"

Names == {"Ann"}

Emails == {"a@campus", "b@campus"}

\* Passwords and bcrypt salts, as numbers.
Passwords == {1, 2}

Salts == {1, 2}

Subjects == {NoneStr, "Ragging"}

Severities == {"High"}

Details == {Missing, "seen at hostel"}

\* Client-supplied upload file names; the second names a directory that
\* does not exist under static/uploads.
Filenames == {NoneStr, "proof.png", "nodir/proof.png"}

\* The sample poll's four options and a string that is none of them.
SampleOptions == <<"Yes, strict punishment", "No, only counseling",
                   "Maybe, depends on severity", "Not sure">>

Options == {SampleOptions[1], "junk", Missing}

Methods == {"GET", "POST"}

PollIds == {1, 2}

VARIABLES
    User,        \* table user: sequence of rows, row i has id i
    Complaint,   \* table complaint
    Poll,        \* table poll
    Vote,        \* table vote
    registered,  \* history: the plaintext password each User row was registered with
    uploads,     \* files under static/uploads
    session,     \* session[b]: the user id in browser b's session cookie, or None
    req,         \* req[w]: what worker w still has to do for its request
    response     \* the last response sent

vars == <<User, Complaint, Poll, Vote, registered, uploads, session, req,
          response>>

tables == <<User, Complaint, Poll, Vote>>

Idle == [pc |-> "idle"]

Range(s) == {s[i] : i \in DOMAIN s}

\* The rows of table t that satisfy P.
Rows(t, P(_)) == {i \in DOMAIN t : P(t[i])}

\* ------------------------------------------------------------------ bcrypt
Digest(password, salt) == (password + salt) % 3

generate_password_hash(password, salt) ==
    [salt |-> salt, digest |-> Digest(password, salt)]

\* The check with the stored salt ignored.
check_password_hash_unsalted(pw_hash, password) ==
    Digest(password, 1) = pw_hash.digest

check_password_hash(pw_hash, password) ==
    Digest(password, pw_hash.salt) = pw_hash.digest

\* ------------------------------------------------------------------ tables
\* The commit written as a merge into the newest row.
Insert_merge(table, row) ==
    IF table = <<>> THEN <<[row EXCEPT !.id = 1]>>
    ELSE [table EXCEPT ![Len(table)] = [row EXCEPT !.id = Len(table)]]

\* db.session.add(row); db.session.commit(): the row gets the next id.
Insert(table, row) == Append(table, [row EXCEPT !.id = Len(table) + 1])

\* Column defaults: a None attribute is left out of the INSERT.
Default(value, default) == IF value = NoneStr THEN default ELSE value

\* User.query.filter_by(email=email).first()
UserByEmail(email) == Rows(User, LAMBDA u : u.email = email)

\* load_user: the row of the cookie's user id, or None.
load_user(user_id) == IF user_id \in DOMAIN User THEN user_id ELSE None

\* Vote.query.filter_by(poll_id=poll_id, user_id=user_id)
VotesOf(poll_id, user_id) ==
    Rows(Vote, LAMBDA v : v.poll_id = poll_id /\ v.user_id = user_id)

Init ==
    /\ User = <<>>
    /\ Complaint = <<>>
    /\ Poll = <<>>
    /\ Vote = <<>>
    /\ registered = <<>>
    /\ uploads = {}
    /\ session = [b \in Sessions |-> None]
    /\ req = [w \in Requests |-> Idle]
    /\ response = [status |-> 0, location |-> "", arg |-> None, flash |-> ""]

\* The worker answers and becomes idle.
RespondWith(w, status, location, arg, flash) ==
    /\ req' = [req EXCEPT ![w] = Idle]
    /\ response' = [status |-> status, location |-> location, arg |-> arg,
                    flash |-> flash]

Respond(w, status, location, flash) ==
    RespondWith(w, status, location, None, flash)

\* The worker goes on with the request at step pc.
Continue(w, pc, locals) ==
    /\ req' = [req EXCEPT ![w] = [pc |-> pc, locals |-> locals]]
    /\ UNCHANGED response

\* current_user of a request that carries browser b's cookie.
current_user(b) == load_user(session[b])

\* A handler without the login_required decorator.
login_required_off(user) == TRUE

\* login_required lets the request through.
login_required(user) == user # None

\* login_required turns an anonymous request away.
Unauthorized(w) == Respond(w, 302, "login", "")

\* ---------------------------------------------------------------- register
register(w, name, email, password, salt) ==
    /\ req[w].pc = "idle"
    /\ IF email = Missing
       THEN Respond(w, 400, "", "")
       ELSE IF UserByEmail(email) # {}
       THEN Respond(w, 302, "register", "Email already registered!")
       ELSE Continue(w, "register_commit",
                     [plain |-> password,
                      new_user |->
                        [id |-> None, name |-> name, email |-> email,
                         password |-> generate_password_hash(password, salt)]])
    /\ UNCHANGED <<tables, registered, uploads, session>>

\* The commit with no unique constraint on the email column.
register_commit_unchecked(w) ==
    /\ req[w].pc = "register_commit"
    /\ User' = Insert(User, req[w].locals.new_user)
    /\ registered' = Append(registered, req[w].locals.plain)
    /\ Respond(w, 302, "login", "Registration successful")
    /\ UNCHANGED <<Complaint, Poll, Vote, uploads, session>>

\* db.session.commit() of the new User; the email column is unique.
register_commit(w) ==
    /\ req[w].pc = "register_commit"
    /\ LET new_user == req[w].locals.new_user
       IN  IF UserByEmail(new_user.email) # {}
           THEN /\ UNCHANGED <<User, registered>>
                /\ Respond(w, 500, "", "")
           ELSE /\ User' = Insert(User, new_user)
                /\ registered' = Append(registered, req[w].locals.plain)
                /\ Respond(w, 302, "login", "Registration successful")
    /\ UNCHANGED <<Complaint, Poll, Vote, uploads, session>>

\* ------------------------------------------------------------ login/logout
login(w, b, email, password) ==
    /\ req[w].pc = "idle"
    /\ LET user == UserByEmail(email)
       IN  IF email = Missing
           THEN /\ Respond(w, 400, "", "")
                /\ UNCHANGED session
           ELSE IF /\ user # {}
                   /\ LET first == CHOOSE i \in user : \A j \in user : i <= j
                      IN  check_password_hash(User[first].password, password)
           THEN LET first == CHOOSE i \in user : \A j \in user : i <= j
                IN  /\ session' = [session EXCEPT ![b] = User[first].id]
                    /\ Respond(w, 302, "awareness", "Login successful!")
           ELSE /\ UNCHANGED session
                /\ Respond(w, 200, "", "Invalid email or password")
    /\ UNCHANGED <<tables, registered, uploads>>

logout(w, b) ==
    /\ req[w].pc = "idle"
    /\ IF ~login_required(current_user(b))
       THEN /\ Unauthorized(w)
            /\ UNCHANGED session
       ELSE /\ session' = [session EXCEPT ![b] = None]
            /\ Respond(w, 302, "login", "Logged out")
    /\ UNCHANGED <<tables, registered, uploads>>

\* --------------------------------------------------------------- complaint
\* file.save raises when the directory of the client's file name is missing.
SaveFails(filename) == filename = "nodir/proof.png"

\* The row with the owner stored whatever the anonymous flag says.
new_complaint_owned(user, subject, severity, details, anonymous, proof_file) ==
    [id |-> None, student_id |-> user, subject |-> subject,
     severity |-> Default(severity, "Medium"), details |-> details,
     anonymous |-> anonymous, proof_file |-> proof_file, status |-> Default(NoneStr, "Pending")]

\* Complaint(student_id=None if anonymous else current_user.id, ...)
new_complaint(user, subject, severity, details, anonymous, proof_file) ==
    [id |-> None,
     student_id |-> IF anonymous THEN None ELSE user,
     subject |-> subject,
     severity |-> Default(severity, "Medium"),
     details |-> details,
     anonymous |-> anonymous,
     proof_file |-> proof_file,
     status |-> Default(NoneStr, "Pending")]

complaint(w, b, subject, severity, details, anonymous, filename) ==
    /\ req[w].pc = "idle"
    /\ Len(Complaint) < MaxComplaint
    /\ LET user == current_user(b)
           proof_file == IF filename = NoneStr THEN NoneStr
                         ELSE "uploads/" \o filename
       IN  IF ~login_required(user)
           THEN /\ Unauthorized(w)
                /\ UNCHANGED <<Complaint, uploads>>
           ELSE IF details = Missing
           THEN /\ Respond(w, 400, "", "")
                /\ UNCHANGED <<Complaint, uploads>>
           ELSE IF SaveFails(filename)
           THEN /\ Respond(w, 500, "", "")
                /\ UNCHANGED <<Complaint, uploads>>
           ELSE /\ uploads' = IF filename = NoneStr THEN uploads
                              ELSE uploads \cup {filename}
                /\ IF subject = NoneStr
                   THEN /\ Respond(w, 500, "", "")
                        /\ UNCHANGED Complaint
                   ELSE /\ Complaint' =
                            Insert(Complaint,
                                   new_complaint(user, subject, severity,
                                                 details, anonymous,
                                                 proof_file))
                        /\ Continue(w, "complaint_mail",
                                    [new_complaint |-> Len(Complaint) + 1])
    /\ UNCHANGED <<User, Poll, Vote, registered, session>>

\* The handler with the complaint rolled back when the mail raises.
complaint_mail_rollback(w, email_sent) ==
    /\ req[w].pc = "complaint_mail"
    /\ Complaint' = IF email_sent THEN Complaint
                    ELSE SubSeq(Complaint, 1, Len(Complaint) - 1)
    /\ RespondWith(w, 302, "track", req[w].locals.new_complaint,
                   IF email_sent THEN "Complaint submitted and email sent"
                   ELSE "saved, but email notification failed")
    /\ UNCHANGED <<User, Poll, Vote, registered, uploads, session>>

\* mail.send(msg) inside try/except: sent, or raised and logged.
complaint_mail(w, email_sent) ==
    /\ req[w].pc = "complaint_mail"
    /\ RespondWith(w, 302, "track", req[w].locals.new_complaint,
                   IF email_sent THEN "Complaint submitted and email sent"
                   ELSE "saved, but email notification failed")
    /\ UNCHANGED <<tables, registered, uploads, session>>

\* ------------------------------------------------------------------- polls
sample ==
    [id |-> None,
     question |-> "Should strict action be taken against ragging?",
     option1 |-> SampleOptions[1], option2 |-> SampleOptions[2],
     option3 |-> SampleOptions[3], option4 |-> SampleOptions[4]]

\* Votes that requests in flight will still insert.
PendingVotes ==
    Cardinality({w \in Requests :
        \/ req[w].pc = "polls_vote"
        \/ req[w].pc = "polls_sample" /\ req[w].locals.method = "POST"})

\* The handler with the warning flashed and the vote recorded all the same.
polls_post_unchecked(w, user, method, poll_id, option) ==
    IF method = "GET"
    THEN Respond(w, 200, "polls/index", "")
    ELSE IF option = Missing
    THEN Respond(w, 400, "", "")
    ELSE Continue(w, "polls_vote",
                  [vote |-> [id |-> None, poll_id |-> poll_id,
                             option |-> option, user_id |-> user]])

\* The handler from "if request.method == 'POST'" on, up to the Vote commit.
polls_post(w, user, method, poll_id, option) ==
    IF method = "GET"
    THEN Respond(w, 200, "polls/index", "")
    ELSE IF option = Missing
    THEN Respond(w, 400, "", "")
    ELSE IF VotesOf(poll_id, user) # {}
    THEN RespondWith(w, 302, "poll_results", poll_id, "You already voted!")
    ELSE Continue(w, "polls_vote",
                  [vote |-> [id |-> None, poll_id |-> poll_id,
                             option |-> option, user_id |-> user]])

polls(w, b, method, poll_id, option) ==
    /\ req[w].pc = "idle"
    /\ method = "POST" => Len(Vote) + PendingVotes < MaxVote
    /\ IF ~login_required(current_user(b))
       THEN Unauthorized(w)
       ELSE IF Poll = <<>>
       THEN Continue(w, "polls_sample",
                     [user |-> current_user(b), method |-> method,
                      poll_id |-> poll_id, option |-> option])
       ELSE polls_post(w, current_user(b), method, poll_id, option)
    /\ UNCHANGED <<tables, registered, uploads, session>>

\* db.session.commit() of the sample poll, then the rest of the handler.
polls_sample(w) ==
    /\ req[w].pc = "polls_sample"
    /\ Poll' = Insert(Poll, sample)
    /\ LET l == req[w].locals
       IN  polls_post(w, l.user, l.method, l.poll_id, l.option)
    /\ UNCHANGED <<User, Complaint, Vote, registered, uploads, session>>

\* The commit under a unique constraint on (poll_id, user_id).
polls_vote_unique(w) ==
    /\ req[w].pc = "polls_vote"
    /\ LET vote == req[w].locals.vote
       IN  IF VotesOf(vote.poll_id, vote.user_id) # {}
           THEN /\ UNCHANGED Vote
                /\ Respond(w, 500, "", "")
           ELSE /\ Vote' = Insert(Vote, vote)
                /\ RespondWith(w, 302, "poll_results", vote.poll_id,
                               "Vote recorded!")
    /\ UNCHANGED <<User, Complaint, Poll, registered, uploads, session>>

\* db.session.commit() of the Vote.
polls_vote(w) ==
    /\ req[w].pc = "polls_vote"
    /\ Vote' = Insert(Vote, req[w].locals.vote)
    /\ RespondWith(w, 302, "poll_results", req[w].locals.vote.poll_id,
                   "Vote recorded!")
    /\ UNCHANGED <<User, Complaint, Poll, registered, uploads, session>>

\* The options of a poll row, in the order of the results dict.
PollOptions(p) == <<p.option1, p.option2, p.option3, p.option4>>

\* for v in votes: if v.option in results: results[v.option] += 1
RECURSIVE Tally(_, _, _)
Tally(votes, i, results) ==
    IF i > Len(votes) THEN results
    ELSE Tally(votes, i + 1,
               IF votes[i].option \in DOMAIN results
               THEN [results EXCEPT ![votes[i].option] = @ + 1]
               ELSE results)

\* The results dict of an existing poll.
Results(poll_id) ==
    LET votes == SelectSeq(Vote, LAMBDA v : v.poll_id = poll_id)
        zero == [o \in Range(PollOptions(Poll[poll_id])) |-> 0]
    IN  Tally(votes, 1, zero)

poll_results(w, b, poll_id) ==
    /\ req[w].pc = "idle"
    /\ IF ~login_required(current_user(b))
       THEN Unauthorized(w)
       ELSE IF poll_id \notin DOMAIN Poll
       THEN Respond(w, 404, "", "")
       ELSE RespondWith(w, 200, "polls/results", Results(poll_id), "")
    /\ UNCHANGED <<tables, registered, uploads, session>>

\* ------------------------------------------------------------ the requests
Auth(w, browsers) ==
    \/ \E name \in Names, email \in Emails \cup {Missing},
          password \in Passwords, salt \in Salts :
            register(w, name, email, password, salt)
    \/ register_commit(w)
    \/ \E b \in browsers, email \in Emails \cup {Missing},
          password \in Passwords :
            login(w, b, email, password)
    \/ \E b \in browsers : logout(w, b)

Sessioning(w, browsers) ==
    \/ \E b \in browsers, email \in Emails, password \in Passwords :
            login(w, b, email, password)
    \/ \E b \in browsers : logout(w, b)

Complaints(w, browsers) ==
    \/ \E b \in browsers, subject \in Subjects, severity \in Severities,
          details \in Details, anonymous \in BOOLEAN,
          filename \in Filenames :
            complaint(w, b, subject, severity, details, anonymous, filename)
    \/ \E email_sent \in BOOLEAN : complaint_mail(w, email_sent)

Polls(w, browsers) ==
    \/ \E b \in browsers, method \in Methods, poll_id \in PollIds,
          option \in Options :
            polls(w, b, method, poll_id, option)
    \/ polls_sample(w)
    \/ polls_vote(w)
    \/ \E b \in browsers, poll_id \in PollIds : poll_results(w, b, poll_id)

\* Two students are registered and nobody is logged in.
Enrolled ==
    /\ User = <<[id |-> 1, name |-> "Ann", email |-> "a@campus",
                 password |-> generate_password_hash(1, 1)],
                [id |-> 2, name |-> "Ann", email |-> "b@campus",
                 password |-> generate_password_hash(2, 2)]>>
    /\ registered = <<1, 2>>
    /\ Complaint = <<>>
    /\ Poll = <<>>
    /\ Vote = <<>>
    /\ uploads = {}
    /\ session = [b \in Sessions |-> None]
    /\ req = [w \in Requests |-> Idle]
    /\ response = [status |-> 0, location |-> "", arg |-> None, flash |-> ""]

\* Registration and login, from the empty database.
NextAuth == \E w \in Requests : Auth(w, Sessions)

SpecAuth == Init /\ [][NextAuth]_vars

\* Complaint submission by the enrolled students.
NextComplaint ==
    \E w \in Requests : Sessioning(w, Student) \/ Complaints(w, Student)

SpecComplaint == Enrolled /\ [][NextComplaint]_vars

\* Polls and votes of the enrolled students.
NextPolls == \E w \in Requests : Sessioning(w, Student) \/ Polls(w, Student)

SpecPolls == Enrolled /\ [][NextPolls]_vars

\* The same, with the requests served one after another.
Quiet(w) == \A v \in Requests \ {w} : req[v].pc = "idle"

NextPollsSeq ==
    \E w \in Requests :
        Quiet(w) /\ (Sessioning(w, Student) \/ Polls(w, Student))

SpecPollsSeq == Enrolled /\ [][NextPollsSeq]_vars

\* Every handler together, from the empty database, on well-formed forms:
\* browser b1 registers, logs in and out and submits named complaints and
\* votes; browser b2 never logs in and tries every request all the same.
Wellformed(w) ==
    \/ \E email \in Emails : register(w, "Ann", email, 1, 1)
    \/ register_commit(w)
    \/ \E email \in Emails : login(w, "b1", email, 1)
    \/ \E b \in Sessions : logout(w, b)
    \/ complaint(w, "b1", "Ragging", "High", "seen at hostel", FALSE, NoneStr)
    \/ \E anonymous \in BOOLEAN :
            complaint(w, "b2", "Ragging", "High", "seen at hostel", anonymous,
                      NoneStr)
    \/ \E email_sent \in BOOLEAN : complaint_mail(w, email_sent)
    \/ \E b \in Sessions, method \in Methods :
            polls(w, b, method, 1, SampleOptions[1])
    \/ polls_sample(w)
    \/ polls_vote(w)
    \/ \E b \in Sessions : poll_results(w, b, 1)

Next == \E w \in Requests : Wellformed(w)

Spec == Init /\ [][Next]_vars

\* ------------------------------------------------------------------ claims
\* table' is table with rows appended, the rows of table unchanged.
Extends(table, bigger) ==
    /\ Len(bigger) >= Len(table)
    /\ SubSeq(bigger, 1, Len(table)) = table

\* C1 as stated: every POST to /complaint by a logged-in user creates exactly
\* one Complaint record.
C1_EveryPostCreatesOneRecord ==
    [][\A w \in Requests, b \in Student, subject \in Subjects,
         severity \in Severities, details \in Details,
         anonymous \in BOOLEAN, filename \in Filenames :
          ( /\ complaint(w, b, subject, severity, details, anonymous, filename)
            /\ login_required(current_user(b)) )
          => Len(Complaint') = Len(Complaint) + 1]_vars

\* C1 amended: a POST to /complaint by a logged-in user that carries details
\* and a subject, and whose upload (if any) is saved, creates exactly one
\* Complaint record, committed before the mail is attempted; the mail step,
\* sent or raised, leaves the complaint table as it is.  A POST without
\* details, without subject or whose upload cannot be saved creates no
\* record and attempts no mail.
C1_OneRecordBeforeMail ==
    [][\A w \in Requests :
        /\ req[w].pc = "idle" =>
           \A b \in Student, subject \in Subjects, severity \in Severities,
              details \in Details, anonymous \in BOOLEAN,
              filename \in Filenames :
              ( /\ complaint(w, b, subject, severity, details, anonymous,
                             filename)
                /\ login_required(current_user(b)) )
              => IF /\ details # Missing
                    /\ subject # NoneStr
                    /\ ~SaveFails(filename)
                 THEN /\ Len(Complaint') = Len(Complaint) + 1
                      /\ Extends(Complaint, Complaint')
                      /\ req'[w].pc = "complaint_mail"
                      /\ req'[w].locals.new_complaint = Len(Complaint')
                 ELSE /\ Complaint' = Complaint
                      /\ req'[w].pc = "idle"
        /\ \A email_sent \in BOOLEAN :
              complaint_mail(w, email_sent)
              => /\ req[w].locals.new_complaint \in DOMAIN Complaint
                 /\ Complaint' = Complaint
                 /\ response'.arg = req[w].locals.new_complaint]_vars

\* C1 witness: the mail of a complaint raised and the complaint is stored.
C1_MailFailedRecordKept ==
    /\ response.flash = "saved, but email notification failed"
    /\ response.arg \in DOMAIN Complaint

\* C2: every stored Complaint has student_id null iff it is anonymous, and a
\* submission stores None when anonymous and else the id of the user logged
\* in on the submitting browser.
C2_OwnerNullIffAnonymous ==
    [][/\ \A i \in DOMAIN Complaint' :
            (Complaint'[i].student_id = None) <=> Complaint'[i].anonymous
       /\ Len(Complaint') > Len(Complaint) =>
          \A w \in Requests, b \in Student, subject \in Subjects,
             severity \in Severities, details \in Details,
             anonymous \in BOOLEAN, filename \in Filenames :
             ( /\ complaint(w, b, subject, severity, details, anonymous,
                            filename)
               /\ Len(Complaint') > Len(Complaint) )
             => /\ session[b] \in DOMAIN User
                /\ Complaint'[Len(Complaint')].student_id =
                       IF anonymous THEN None ELSE session[b]]_vars

\* C2 witness: an anonymous complaint by a logged-in user and a named one.
C2_BothKindsStored ==
    /\ \E i \in DOMAIN Complaint : Complaint[i].anonymous
    /\ \E i \in DOMAIN Complaint : Complaint[i].student_id = 2

\* The rows of Vote with this poll and user.
VoteRows(votes, poll_id, user_id) ==
    {i \in DOMAIN votes :
        votes[i].poll_id = poll_id /\ votes[i].user_id = user_id}

\* C3: with the requests served one after another, a vote POST by a user who
\* already has a Vote for that poll is rejected, adds no row and changes none;
\* a recorded vote carries the option submitted; so there is at most one Vote
\* per (poll, user), and it stays the first one recorded.
C3_DuplicateVoteRejected ==
    [][/\ Extends(Vote, Vote')
       /\ \A i, j \in DOMAIN Vote' :
            ( /\ Vote'[i].poll_id = Vote'[j].poll_id
              /\ Vote'[i].user_id = Vote'[j].user_id ) => i = j
       /\ \A w \in Requests :
            /\ req[w].pc = "idle" =>
               \A b \in Student, poll_id \in PollIds, option \in Options :
                  ( /\ polls(w, b, "POST", poll_id, option)
                    /\ login_required(current_user(b)) )
                  => IF VoteRows(Vote, poll_id, session[b]) # {}
                     THEN /\ Vote' = Vote
                          /\ req'[w].pc = "idle"
                          /\ option # Missing
                             => response'.flash = "You already voted!"
                     ELSE req'[w].pc = "polls_vote"
                          => req'[w].locals.vote.option = option
            /\ (req[w].pc = "polls_vote" /\ req'[w].pc = "idle")
               => /\ Len(Vote') = Len(Vote) + 1
                  /\ Vote'[Len(Vote')].option = req[w].locals.vote.option
      ]_vars

\* C3 witness: a second vote was turned away and the first is stored.
C3_SecondVoteTurnedAway ==
    /\ response.flash = "You already voted!"
    /\ VoteRows(Vote, response.arg, session["b1"]) # {}

\* C4: the Vote commit of a request that passed the existing-vote check always
\* inserts its row, whatever rows the table holds by then: nothing makes the
\* pair (poll_id, user_id) unique.
C4_VoteCommitNeverRefused ==
    [][\A w \in Requests :
          (req[w].pc = "polls_vote" /\ req'[w].pc = "idle")
          => /\ Len(Vote') = Len(Vote) + 1
             /\ Vote'[Len(Vote')].poll_id = req[w].locals.vote.poll_id
             /\ Vote'[Len(Vote')].user_id = req[w].locals.vote.user_id
      ]_vars

\* C4 witness: two Vote rows of one user for one poll.
C4_TwoVotesOfOneUser ==
    \E i, j \in DOMAIN Vote :
        /\ i # j
        /\ Vote[i].poll_id = Vote[j].poll_id
        /\ Vote[i].user_id = Vote[j].user_id

C6_LoginDecides ==
    [][\A w \in Requests :
          req[w].pc = "idle" =>
          \A b \in Sessions, email \in Emails \cup {Missing},
             password \in Passwords :
             login(w, b, email, password)
             => IF \E i \in DOMAIN User :
                      User[i].email = email /\ registered[i] = password
                THEN \E i \in DOMAIN User :
                      /\ User[i].email = email
                      /\ session' = [session EXCEPT ![b] = i]
                ELSE session' = session
      ]_vars

\* C6 witness: a browser is logged in and another login was refused.
C6_LoggedInAndRefused ==
    /\ \E b \in Sessions : session[b] # None
    /\ response.flash = "Invalid email or password"

\* The Vote rows of a poll, and those with one of its options.
VotesFor(poll_id) == {i \in DOMAIN Vote : Vote[i].poll_id = poll_id}

RECURSIVE Sum(_, _)
Sum(f, S) ==
    IF S = {} THEN 0
    ELSE LET x == CHOOSE x \in S : TRUE IN f[x] + Sum(f, S \ {x})

\* C7 as stated: the results of every poll map each of its four options to
\* the number of its Vote rows with that option, and every Vote row of the
\* poll is counted in exactly one tally: the tallies sum to the row count.
C7_TallyMatchesRows ==
    \A p \in DOMAIN Poll :
        /\ DOMAIN Results(p) = Range(PollOptions(Poll[p]))
        /\ \A o \in DOMAIN Results(p) :
              Results(p)[o] =
                 Cardinality({i \in VotesFor(p) : Vote[i].option = o})
        /\ Sum(Results(p), DOMAIN Results(p)) = Cardinality(VotesFor(p))

\* C8 as stated: exactly one sample poll is ever created, and a poll exists
\* once a /polls request of a logged-in user was answered.
C8_ExactlyOneSamplePoll ==
    /\ Len(Poll) <= 1
    /\ response.location \in {"polls/index", "poll_results"} => Len(Poll) >= 1

\* C9: no step updates or deletes a row: every table only grows at its end,
\* and every Complaint stays "Pending".
C9_AppendOnly ==
    [][/\ Extends(User, User')
       /\ Extends(Complaint, Complaint')
       /\ Extends(Poll, Poll')
       /\ Extends(Vote, Vote')
       /\ \A i \in DOMAIN Complaint' : Complaint'[i].status = "Pending"
      ]_vars

\* C9 witness: each table holds rows, the complaint table two.
C9_AllTablesFilled ==
    /\ User # <<>>
    /\ Len(Complaint) >= 2
    /\ Poll # <<>>
    /\ Vote # <<>>

\* C10: a /complaint or /polls request of a browser that is not logged in
\* writes nothing and is sent to login; logout leaves the browser not logged
\* in; every Vote and every named Complaint is owned by a registered user,
\* and a named Complaint by a user logged in when it was submitted.
C10_WritesNeedLogin ==
    [][/\ \A w \in Requests :
            req[w].pc = "idle" =>
            \A b \in Sessions :
               ( /\ session[b] = None
                 /\ \/ \E anonymous \in BOOLEAN :
                         complaint(w, b, "Ragging", "High", "seen at hostel",
                                   anonymous, NoneStr)
                    \/ \E method \in Methods :
                         polls(w, b, method, 1, SampleOptions[1]) )
               => /\ req'[w].pc = "idle"
                  /\ <<User, Complaint, Poll, Vote>>' =
                        <<User, Complaint, Poll, Vote>>
                  /\ response'.location = "login"
       /\ \A w \in Requests, b \in Sessions :
            (req[w].pc = "idle" /\ logout(w, b)) => session'[b] = None
       /\ \A w \in Requests :
            req'[w].pc \in {"polls_sample", "polls_vote", "complaint_mail"}
            => \/ req'[w] = req[w]
               \/ req[w].pc = "polls_sample"
               \/ \E b \in Sessions : session[b] \in DOMAIN User
       /\ \A i \in DOMAIN Vote' : Vote'[i].user_id \in DOMAIN User'
       /\ \A i \in DOMAIN Complaint' :
            ~Complaint'[i].anonymous
            => Complaint'[i].student_id \in DOMAIN User'
       /\ Len(Complaint') > Len(Complaint)
          => \/ Complaint'[Len(Complaint')].anonymous
             \/ \E b \in Sessions :
                  session[b] = Complaint'[Len(Complaint')].student_id
      ]_vars

\* C10 witness: rows were written while one browser never logged in and the
\* other has logged out again.
C10_WrittenThenLoggedOut ==
    /\ Vote # <<>>
    /\ \E i \in DOMAIN Complaint : ~Complaint[i].anonymous
    /\ \A b \in Sessions : session[b] = None
    /\ response.location = "login"

====
